---------------------------- MODULE Spec2Model ----------------------------
(***************************************************************************)
(* A model of build_tiny_transcoder.py: the identification of Tiny         *)
(* AutoEncoder files (get_safetensors_header, is_taesd, is_taesd_with_role,*)
(* get_tensor_prefix, find_taesd_with_role), the tensor transformations    *)
(* (load_tensors, shift_layers), the assembler (build_tiny_transcoder) and *)
(* the command line entry point (main).                                    *)
(*                                                                         *)
(* Python strings are sequences of one-character strings, so that          *)
(* startswith, endswith, `in`, split, isdecimal, int() and str() are       *)
(* computed character by character.  A Python dict is the sequence of its  *)
(* entries in insertion order.                                             *)
(***************************************************************************)
EXTENDS Integers, Sequences, FiniteSets, TLC

VARIABLES
    pc,                       \* position of the running function
    args,                     \* the arguments of the function under study
    fs,                       \* the file system: path -> file
    idx,                      \* find_taesd_with_role: position in input_files
    header,                   \* find_taesd_with_role: header of the current file
    taesd,                    \* outcome of is_taesd inside is_taesd_with_role
    matched,                  \* outcome of is_taesd_with_role
    tensors,                  \* load_tensors: the dict being filled
    fixed_dict,               \* shift_layers: the dict being filled
    encoder_tensors,          \* build_tiny_transcoder locals
    decoder_tensors,
    transcoder_tensors,
    opened,                   \* the paths opened with safe_open, in order
    encoder_path_and_prefix,  \* main locals
    decoder_path_and_prefix,
    state_dict,
    saved,                    \* the calls of save_file, in order
    exit_code,                \* exit status of the process (-1 while running)
    ret                       \* what the function under study returned or raised

vars == << pc, args, fs, idx, header, taesd, matched, tensors, fixed_dict,
           encoder_tensors, decoder_tensors, transcoder_tensors, opened,
           encoder_path_and_prefix, decoder_path_and_prefix, state_dict,
           saved, exit_code, ret >>

-----------------------------------------------------------------------------
(* Bounds of the model.                                                    *)

\* largest number of tensor names in a header drawn for identification
MaxKeys == 2

-----------------------------------------------------------------------------
(* String literals of the source.                                          *)

K_3_conv_4_bias == <<"3",".","c","o","n","v",".","4",".","b","i","a","s">>
K_8_conv_0_weight == <<"8",".","c","o","n","v",".","0",".","w","e","i","g","h","t">>
K_decoder_layers_3_conv_4_bias == <<"d","e","c","o","d","e","r",".","l","a","y","e","r","s",".","3",".","c","o","n","v",".","4",".","b","i","a","s">>
K_decoder_layers_8_conv_0_weight == <<"d","e","c","o","d","e","r",".","l","a","y","e","r","s",".","8",".","c","o","n","v",".","0",".","w","e","i","g","h","t">>
K_encoder_layers_4_conv_4_bias == <<"e","n","c","o","d","e","r",".","l","a","y","e","r","s",".","4",".","c","o","n","v",".","4",".","b","i","a","s">>
K_encoder_layers_8_conv_0_weight == <<"e","n","c","o","d","e","r",".","l","a","y","e","r","s",".","8",".","c","o","n","v",".","0",".","w","e","i","g","h","t">>
S_taesd == <<"t","a","e","s","d">>
S_taesdxl == <<"t","a","e","s","d","x","l">>
S_taesd3 == <<"t","a","e","s","d","3">>
S_taef1 == <<"t","a","e","f","1">>
S_encoder == <<"e","n","c","o","d","e","r">>
S_decoder == <<"d","e","c","o","d","e","r">>
ANCHOR_POSTFIX == <<".","3",".","c","o","n","v",".","4",".","b","i","a","s">>
DECODER_PREFIX == <<"t","r","a","n","s","d",".">>
ENCODER_PREFIX == <<"t","r","a","n","s","e",".">>
XBRIDGE_PREFIX == <<"t","r","a","n","s","x",".">>
INPUT_EMULATION_PREFIX == <<"i","n","_","e","m","u",".">>
OUTPUT_EMULATION_PREFIX == <<"o","u","t","_","e","m","u",".">>
S_gaussian_blur_sigma == <<"g","a","u","s","s","i","a","n","_","b","l","u","r","_","s","i","g","m","a">>
S_scale_factor == <<"s","c","a","l","e","_","f","a","c","t","o","r">>
S_shift_factor == <<"s","h","i","f","t","_","f","a","c","t","o","r">>
S_0_weight == <<"0",".","w","e","i","g","h","t">>

\* default of get_safetensors_header's size_limit
SIZE_LIMIT == 67108864

\* exit code to use in case of fatal error
FATAL_ERROR_CODE == 1

-----------------------------------------------------------------------------
(* Python's str methods.                                                   *)

\* s.startswith(p)
StartsWith(s, p) ==
    /\ Len(p) <= Len(s)
    /\ SubSeq(s, 1, Len(p)) = p

\* s.endswith(p)
EndsWith(s, p) ==
    /\ Len(p) <= Len(s)
    /\ SubSeq(s, Len(s) - Len(p) + 1, Len(s)) = p

\* sub in s
Contains(s, sub) ==
    \E i \in 0..(Len(s) - Len(sub)) : SubSeq(s, i + 1, i + Len(sub)) = sub

\* one character of s.lower()
LowerChar(c) ==
    CASE c = "A" -> "a" [] c = "B" -> "b" [] c = "C" -> "c" [] c = "D" -> "d"
      [] c = "E" -> "e" [] c = "F" -> "f" [] c = "G" -> "g" [] c = "H" -> "h"
      [] c = "I" -> "i" [] c = "J" -> "j" [] c = "K" -> "k" [] c = "L" -> "l"
      [] c = "M" -> "m" [] c = "N" -> "n" [] c = "O" -> "o" [] c = "P" -> "p"
      [] c = "Q" -> "q" [] c = "R" -> "r" [] c = "S" -> "s" [] c = "T" -> "t"
      [] c = "U" -> "u" [] c = "V" -> "v" [] c = "W" -> "w" [] c = "X" -> "x"
      [] c = "Y" -> "y" [] c = "Z" -> "z" [] OTHER -> c

\* s.lower()
Lower(s) == [i \in 1..Len(s) |-> LowerChar(s[i])]

\* s.rfind(c): the last position of character c, 0 when there is none
\* (positions count from 1 here, from 0 in Python)
RFind(s, c) ==
    LET at == {i \in 1..Len(s) : s[i] = c}
    IN  IF at = {} THEN 0 ELSE CHOOSE i \in at : \A j \in at : j <= i

\* s.find(c): the first position of character c, 0 when there is none
Find(s, c) ==
    LET at == {i \in 1..Len(s) : s[i] = c}
    IN  IF at = {} THEN 0 ELSE CHOOSE i \in at : \A j \in at : i <= j

\* os.path.basename(p)
Basename(p) == SubSeq(p, RFind(p, "/") + 1, Len(p))

\* os.path.splitext(p)[0]: the extension starts at the last dot that follows
\* the last separator and is preceded, in the file name, by a character that
\* is not a dot
SplitextRoot(p) ==
    LET sepIndex == RFind(p, "/")
        dotIndex == RFind(p, ".")
    IN  IF /\ dotIndex > sepIndex
           /\ \E i \in (sepIndex + 1)..(dotIndex - 1) : p[i] # "."
        THEN SubSeq(p, 1, dotIndex - 1)
        ELSE p

-----------------------------------------------------------------------------
(* Python values and outcomes.                                             *)

\* a value json.loads can return: a dict (its keys in order), a list (its
\* items, strings here), a str, an int, or None
PyDict(keys) == [t |-> "dict", keys |-> keys, s |-> <<>>, n |-> 0]
PyList(items) == [t |-> "list", keys |-> items, s |-> <<>>, n |-> 0]
PyStr(s) == [t |-> "str", keys |-> <<>>, s |-> s, n |-> 0]
PyInt(n) == [t |-> "int", keys |-> <<>>, s |-> <<>>, n |-> n]
PyNone == [t |-> "NoneType", keys |-> <<>>, s |-> <<>>, n |-> 0]

\* bool(v), as `not state_dict` computes it
Truthy(v) ==
    CASE v.t \in {"dict", "list"} -> v.keys # <<>>
      [] v.t = "str" -> v.s # <<>>
      [] v.t = "int" -> v.n # 0
      [] OTHER -> FALSE

\* x in v, for the types that support it: a key of a dict, an item of a
\* list, a substring of a str
PyIn(x, v) ==
    CASE v.t \in {"dict", "list"} -> \E i \in 1..Len(v.keys) : v.keys[i] = x
      [] v.t = "str" -> Contains(v.s, x)
      [] OTHER -> FALSE

\* the outcome of a call: a returned value, or an exception raised
Return(v) == [raised |-> "", value |-> v]
Raise(e, dflt) == [raised |-> e, value |-> dflt]
NotCalled(dflt) == [raised |-> "not called", value |-> dflt]

\* a value that a specification leaves unused
Unused == <<>>

-----------------------------------------------------------------------------
(* Files.  A file is what the two readers see of it: its existence and     *)
(* size, the header length its first 8 bytes declare, the outcome of       *)
(* json.loads on the header bytes read, and whether safe_open accepts it.  *)

File(exists, size, header_length, decode, value, loadable) ==
    [exists |-> exists, size |-> size, header_length |-> header_length,
     decode |-> decode, value |-> value, loadable |-> loadable]

\* a well-formed file whose header holds the names `keys`
TensorFile(keys) == File(TRUE, 1024, 512, "ok", PyDict(keys), TRUE)

\* the empty result of get_safetensors_header
EmptyHeader == PyList(<<>>)

\* get_safetensors_header(file_path, size_limit) on the file at file_path:
\* OSError and ValueError (JSONDecodeError and UnicodeDecodeError are
\* ValueErrors) are caught, and what json.loads returns is returned as is
GetSafetensorsHeader(f, size_limit) ==
    IF ~f.exists THEN EmptyHeader                  \* getsize: OSError, caught
    ELSE IF f.size < 8 THEN EmptyHeader
    ELSE IF f.header_length > size_limit THEN EmptyHeader
    ELSE IF f.decode # "ok" THEN EmptyHeader       \* ValueError, caught
    ELSE f.value

-----------------------------------------------------------------------------
(* Identification.                                                         *)

\* the name stems of line 263
TAESD_STEMS == {S_taesd, S_taesdxl, S_taesd3, S_taef1}

\* is_taesd(state_dict)
IsTaesd_NoEncoderPair(sd) ==
    IF sd.t \notin {"dict", "list", "str"} THEN Raise("TypeError", FALSE)
    ELSE IF PyIn(K_3_conv_4_bias, sd) /\ PyIn(K_8_conv_0_weight, sd)
         THEN Return(TRUE)
    ELSE IF /\ PyIn(K_decoder_layers_3_conv_4_bias, sd)
            /\ PyIn(K_decoder_layers_8_conv_0_weight, sd)
         THEN Return(TRUE)
    ELSE IF sd.t # "dict" THEN Raise("AttributeError", FALSE)
    ELSE Return(\E i \in 1..Len(sd.keys) :
                    \E stem \in TAESD_STEMS : StartsWith(sd.keys[i], stem))

IsTaesd(sd) ==
    \* `in` on an int or None raises TypeError
    IF sd.t \notin {"dict", "list", "str"} THEN Raise("TypeError", FALSE)
    ELSE IF PyIn(K_3_conv_4_bias, sd) /\ PyIn(K_8_conv_0_weight, sd)
         THEN Return(TRUE)
    ELSE IF /\ PyIn(K_decoder_layers_3_conv_4_bias, sd)
            /\ PyIn(K_decoder_layers_8_conv_0_weight, sd)
         THEN Return(TRUE)
    ELSE IF /\ PyIn(K_encoder_layers_4_conv_4_bias, sd)
            /\ PyIn(K_encoder_layers_8_conv_0_weight, sd)
         THEN Return(TRUE)
    \* a list or a str has no keys()
    ELSE IF sd.t # "dict" THEN Raise("AttributeError", FALSE)
    ELSE Return(\E i \in 1..Len(sd.keys) :
                    \E stem \in TAESD_STEMS : StartsWith(sd.keys[i], stem))

\* the role words is_taesd_with_role accepts
ROLES == {S_encoder, S_decoder}

\* ENCODER_TENSOR_SUBNAMES[role]
ENCODER_TENSOR_SUBNAMES(role) == {role}

\* the steps of is_taesd_with_role, as a pair << outcome of is_taesd,
\* outcome of is_taesd_with_role >>
IsTaesdWithRoleSteps_FileNameFirst(file_path, sd, role) ==
    IF role \notin ROLES
    THEN << NotCalled(FALSE), Raise("AssertionError", FALSE) >>
    ELSE IF ~Truthy(sd) THEN << NotCalled(FALSE), Return(FALSE) >>
    ELSE LET t == IsTaesd(sd)
         IN  IF t.raised # "" THEN << t, Raise(t.raised, FALSE) >>
             ELSE IF ~t.value THEN << t, Return(FALSE) >>
             ELSE IF sd.t # "dict" THEN << t, Raise("AttributeError", FALSE) >>
             ELSE << t, Return(Contains(Lower(SplitextRoot(Basename(file_path))),
                                        role)) >>

IsTaesdWithRoleSteps(file_path, sd, role) ==
    IF role \notin ROLES
    THEN << NotCalled(FALSE), Raise("AssertionError", FALSE) >>
    ELSE IF ~Truthy(sd) THEN << NotCalled(FALSE), Return(FALSE) >>
    ELSE LET t == IsTaesd(sd)
         IN  IF t.raised # "" THEN << t, Raise(t.raised, FALSE) >>
             ELSE IF ~t.value THEN << t, Return(FALSE) >>
             ELSE IF sd.t # "dict" THEN << t, Raise("AttributeError", FALSE) >>
             ELSE IF \E i \in 1..Len(sd.keys) :
                        \E subname \in ENCODER_TENSOR_SUBNAMES(role) :
                            Contains(sd.keys[i], subname)
                  THEN << t, Return(TRUE) >>
             ELSE << t, Return(Contains(Lower(SplitextRoot(Basename(file_path))),
                                        role)) >>

\* is_taesd_with_role(file_path, state_dict, role)
IsTaesdWithRole(file_path, sd, role) ==
    IsTaesdWithRoleSteps(file_path, sd, role)[2]

\* get_tensor_prefix(state_dict, postfix, not_containing); not_containing
\* is never None in this program
GetTensorPrefix_NoExclusion(sd, postfix, not_containing) ==
    LET hits == {i \in 1..Len(sd.keys) : EndsWith(sd.keys[i], postfix)}
    IN  IF hits = {} THEN <<>>
        ELSE LET i == CHOOSE h \in hits : \A j \in hits : h <= j
             IN  SubSeq(sd.keys[i], 1, Len(sd.keys[i]) - Len(postfix))

GetTensorPrefix(sd, postfix, not_containing) ==
    LET hits == {i \in 1..Len(sd.keys) :
                    /\ EndsWith(sd.keys[i], postfix)
                    /\ ~Contains(sd.keys[i], not_containing)}
    IN  IF hits = {} THEN <<>>
        ELSE LET i == CHOOSE h \in hits : \A j \in hits : h <= j
             IN  SubSeq(sd.keys[i], 1, Len(sd.keys[i]) - Len(postfix))

\* oposite_role of find_taesd_with_role
OpositeRole(role) == IF role = S_encoder THEN S_decoder ELSE S_encoder

\* what find_taesd_with_role returns: None, or (file, tensor_prefix)
None == [none |-> TRUE, file |-> <<>>, prefix |-> <<>>]
PathAndPrefix(file, prefix) == [none |-> FALSE, file |-> file, prefix |-> prefix]

\* find_taesd_with_role(input_files, role), from the i-th file on
RECURSIVE FindFrom(_, _, _, _)
FindFrom(input_files, i, role, fsys) ==
    IF i > Len(input_files) THEN Return(None)
    ELSE LET file == input_files[i]
             h    == GetSafetensorsHeader(fsys[file], SIZE_LIMIT)
             m    == IsTaesdWithRole(file, h, role)
         IN  IF m.raised # "" THEN Raise(m.raised, None)
             ELSE IF m.value
                  THEN Return(PathAndPrefix(file,
                           GetTensorPrefix(h, ANCHOR_POSTFIX, OpositeRole(role))))
             ELSE FindFrom(input_files, i + 1, role, fsys)

\* find_taesd_with_role(input_files, role)
FindTaesdWithRole(input_files, role, fsys) ==
    IF role \notin ROLES THEN Raise("AssertionError", None)
    ELSE FindFrom(input_files, 1, role, fsys)

-----------------------------------------------------------------------------
(* Inputs of the identification.                                           *)

K_taesdxl_encoder_anchor == <<"t","a","e","s","d","x","l","_","e","n","c","o","d","e","r",".","3",".","c","o","n","v",".","4",".","b","i","a","s">>
K_taesd_decoder_anchor == <<"t","a","e","s","d","_","d","e","c","o","d","e","r",".","3",".","c","o","n","v",".","4",".","b","i","a","s">>
K_vae_anchor == <<"v","a","e",".","3",".","c","o","n","v",".","4",".","b","i","a","s">>
K_xtaesd_weight == <<"x","t","a","e","s","d",".","w","e","i","g","h","t">>
K_metadata == <<"_","_","m","e","t","a","d","a","t","a","_","_">>
K_taef1_weight == <<"t","a","e","f","1",".","w","e","i","g","h","t">>
P_taesd_encoder == <<"t","a","e","s","d","_","e","n","c","o","d","e","r",".","s","a","f","e","t","e","n","s","o","r","s">>
P_TAESD_Decoder == <<"T","A","E","S","D","_","D","e","c","o","d","e","r",".","s","a","f","e","t","e","n","s","o","r","s">>
P_decoder_dir == <<"d","e","c","o","d","e","r","/","v","a","e",".","e","n","c","o","d","e","r">>
P_model == <<"m","o","d","e","l",".","s","a","f","e","t","e","n","s","o","r","s">>

\* the tensor names a header is drawn from
HeaderKeyPool ==
    { K_3_conv_4_bias, K_8_conv_0_weight,
      K_decoder_layers_3_conv_4_bias, K_decoder_layers_8_conv_0_weight,
      K_encoder_layers_4_conv_4_bias, K_encoder_layers_8_conv_0_weight,
      K_taesdxl_encoder_anchor, K_taesd_decoder_anchor, K_vae_anchor,
      K_xtaesd_weight, K_metadata, K_taef1_weight }

\* the file paths a candidate is drawn from
FindPaths == { P_taesd_encoder, P_TAESD_Decoder, P_decoder_dir, P_model }

\* the sequences of at most n distinct elements of S
DistinctSeqs(S, n) ==
    { s \in UNION { [1..m -> S] : m \in 0..n } :
        \A i, j \in DOMAIN s : i # j => s[i] # s[j] }

\* candidate files: every well-formed header of at most MaxKeys names, the
\* headers that are valid JSON but no mapping, and the unreadable files
FindFiles ==
    { TensorFile(keys) : keys \in DistinctSeqs(HeaderKeyPool, MaxKeys) }
    \cup { File(TRUE, 1024, 512, "ok", v, FALSE) :
             v \in { PyList(<<K_3_conv_4_bias, K_8_conv_0_weight>>),
                     PyList(<<K_metadata>>), PyList(<<>>),
                     PyStr(S_taesd), PyStr(<<>>),
                     PyInt(7), PyInt(0), PyNone } }
    \cup { File(FALSE, 0, 0, "ok", PyNone, FALSE),
           File(TRUE, 7, 0, "ok", PyNone, FALSE),
           File(TRUE, 1024, SIZE_LIMIT + 1, "ok",
                PyDict(<<K_taesdxl_encoder_anchor>>), FALSE),
           File(TRUE, 1024, SIZE_LIMIT, "ok",
                PyDict(<<K_taesdxl_encoder_anchor>>), FALSE),
           File(TRUE, 1024, 2048, "JSONDecodeError", PyNone, FALSE),
           File(TRUE, 1024, 512, "UnicodeDecodeError", PyNone, FALSE) }

-----------------------------------------------------------------------------
(* find_taesd_with_role, step by step, on one candidate file.              *)

InitFind ==
    /\ \E p \in FindPaths, f \in FindFiles, r \in ROLES :
          /\ args = [input_files |-> << p >>, role |-> r]
          /\ fs = (p :> f)
    /\ pc = "find_loop"
    /\ idx = 1
    /\ header = EmptyHeader
    /\ taesd = NotCalled(FALSE)
    /\ matched = NotCalled(FALSE)
    /\ ret = NotCalled(None)
    /\ tensors = Unused /\ fixed_dict = Unused
    /\ encoder_tensors = Unused /\ decoder_tensors = Unused
    /\ transcoder_tensors = Unused /\ opened = Unused
    /\ encoder_path_and_prefix = Unused /\ decoder_path_and_prefix = Unused
    /\ state_dict = Unused /\ saved = Unused /\ exit_code = -1

FindFrame ==
    UNCHANGED << args, fs, tensors, fixed_dict, encoder_tensors,
                 decoder_tensors, transcoder_tensors, opened,
                 encoder_path_and_prefix, decoder_path_and_prefix,
                 state_dict, saved, exit_code >>

\* line 314: header = get_safetensors_header(file)
FindInspect ==
    /\ pc = "find_loop"
    /\ idx <= Len(args.input_files)
    /\ header' = GetSafetensorsHeader(fs[args.input_files[idx]], SIZE_LIMIT)
    /\ pc' = "find_classify"
    /\ UNCHANGED << idx, taesd, matched, ret >>
    /\ FindFrame

\* line 315: is_taesd_with_role(file, header, role)
FindClassify ==
    /\ pc = "find_classify"
    /\ LET steps == IsTaesdWithRoleSteps(args.input_files[idx], header, args.role)
       IN  /\ taesd' = steps[1]
           /\ matched' = steps[2]
           /\ IF steps[2].raised # ""
              THEN /\ ret' = Raise(steps[2].raised, None)
                   /\ pc' = "raised"
              ELSE /\ pc' = "find_branch"
                   /\ UNCHANGED ret
    /\ UNCHANGED << idx, header >>
    /\ FindFrame

\* lines 316-317: the file has the role; resolve its prefix and return
FindMatched ==
    /\ pc = "find_branch"
    /\ matched.value
    /\ ret' = Return(PathAndPrefix(args.input_files[idx],
                  GetTensorPrefix(header, ANCHOR_POSTFIX, OpositeRole(args.role))))
    /\ pc' = "returned"
    /\ UNCHANGED << idx, header, taesd, matched >>
    /\ FindFrame

\* line 313: the file has not the role; on to the next file
FindSkip ==
    /\ pc = "find_branch"
    /\ ~matched.value
    /\ idx' = idx + 1
    /\ pc' = "find_loop"
    /\ UNCHANGED << header, taesd, matched, ret >>
    /\ FindFrame

\* line 319: return None
FindNone ==
    /\ pc = "find_loop"
    /\ idx > Len(args.input_files)
    /\ ret' = Return(None)
    /\ pc' = "returned"
    /\ UNCHANGED << idx, header, taesd, matched >>
    /\ FindFrame

NextFind == FindInspect \/ FindClassify \/ FindMatched \/ FindSkip \/ FindNone

SpecFind == InitFind /\ [][NextFind]_vars

-----------------------------------------------------------------------------
(* Properties of the identification, checked under SpecFind.               *)

\* the set of the names of a header
Names(sd) == { sd.keys[i] : i \in 1..Len(sd.keys) }

\* the three fingerprints, stated on a set of names
CompactFingerprint(K) == {K_3_conv_4_bias, K_8_conv_0_weight} \subseteq K
DiffusersFingerprint(K) ==
    \/ {K_decoder_layers_3_conv_4_bias, K_decoder_layers_8_conv_0_weight} \subseteq K
    \/ {K_encoder_layers_4_conv_4_bias, K_encoder_layers_8_conv_0_weight} \subseteq K
StemFingerprint(K) ==
    \E k \in K : \/ StartsWith(k, S_taesd) \/ StartsWith(k, S_taesdxl)
                 \/ StartsWith(k, S_taesd3) \/ StartsWith(k, S_taef1)
FamilyMember(K) ==
    CompactFingerprint(K) \/ DiffusersFingerprint(K) \/ StemFingerprint(K)

\* the file was inspected: header holds what get_safetensors_header returned
Inspected == pc \in {"find_classify", "find_branch", "raised", "returned"} /\ idx = 1
\* the file was classified
Classified == pc \in {"find_branch", "raised", "returned"} /\ idx = 1

\* C1: is_taesd returns True for every tensor-name set that holds one of
\* the three fingerprints and False for every set that holds none of them.
C1_IsTaesdFingerprints ==
    (Inspected /\ header.t = "dict") =>
        /\ IsTaesd(header) = Return(FamilyMember(Names(header)))
        /\ (Classified /\ taesd.raised # "not called") =>
               taesd = Return(FamilyMember(Names(header)))

\* C1 witness: is_taesd returned True on a set whose only fingerprint is
\* the diffusers encoder pair.
C1_Witness ==
    /\ Classified /\ header.t = "dict"
    /\ taesd = Return(TRUE)
    /\ Names(header) = {K_encoder_layers_4_conv_4_bias, K_encoder_layers_8_conv_0_weight}

\* whether the base name of each path of FindPaths, without its extension
\* and in lower case, holds the role word
FileNameHasRole(p, role) ==
    \/ p = P_taesd_encoder /\ role = S_encoder
    \/ p = P_TAESD_Decoder /\ role = S_decoder

\* some name of the set holds the role word
SomeNameHasRole(K, role) == \E k \in K : Contains(k, role)

\* C2: the role is decided by the content first: a family member with a
\* name holding the role word has the role whatever the file name, the file
\* name decides only when no name holds the role word, and an empty set or
\* a set that is no family member has neither role.
C2_RoleContentFirst ==
    (Classified /\ header.t = "dict") =>
        LET K == Names(header)
            p == args.input_files[1]
        IN  /\ matched.raised = ""
            /\ (FamilyMember(K) /\ SomeNameHasRole(K, args.role))
                   => matched.value = TRUE
            /\ (FamilyMember(K) /\ ~SomeNameHasRole(K, args.role))
                   => matched.value = FileNameHasRole(p, args.role)
            /\ (K = {} \/ ~FamilyMember(K)) => matched.value = FALSE

\* C2 witness: a family member with an encoder name, in a file named after
\* the decoder, was classified as an encoder.
C2_Witness ==
    /\ Classified /\ header.t = "dict"
    /\ args.role = S_encoder /\ args.input_files[1] = P_TAESD_Decoder
    /\ SomeNameHasRole(Names(header), S_encoder)
    /\ matched = Return(TRUE)

\* a name the prefix may be taken from: it ends with the anchor and does
\* not hold the opposite role word
Qualifies(k, role) ==
    /\ EndsWith(k, ANCHOR_POSTFIX)
    /\ ~Contains(k, IF role = S_encoder THEN S_decoder ELSE S_encoder)

\* C3: the prefix find_taesd_with_role returns is the first qualifying name
\* without the anchor, and the empty string when no name qualifies.
C3_PrefixResolution ==
    (pc = "returned" /\ ~ret.value.none) =>
        LET keys == header.keys
            p    == ret.value.prefix
        IN  \/ \E i \in 1..Len(keys) :
                  /\ Qualifies(keys[i], args.role)
                  /\ \A j \in 1..(i - 1) : ~Qualifies(keys[j], args.role)
                  /\ keys[i] = p \o ANCHOR_POSTFIX
            \/ /\ \A i \in 1..Len(keys) : ~Qualifies(keys[i], args.role)
               /\ p = <<>>

\* C3 witness: the first name ends with the anchor but holds the opposite
\* role word, and the prefix was taken from the second name.
C3_Witness ==
    /\ pc = "returned" /\ ~ret.value.none
    /\ args.role = S_encoder
    /\ header.keys = << K_taesd_decoder_anchor, K_taesdxl_encoder_anchor >>
    /\ ret.value.prefix \o ANCHOR_POSTFIX = K_taesdxl_encoder_anchor

\* C6: the inspection of a header and the classification that follows never
\* raise: whatever the file, get_safetensors_header returns a mapping or an
\* empty result, and a file without a mapping is classified negatively.
C6_InspectionNeverRaises ==
    /\ pc \in {"raised", "returned"} => (header.t = "dict" \/ ~Truthy(header))
    /\ matched.raised \in {"", "not called"}
    /\ ret.raised \in {"", "not called"}
    /\ (pc = "returned" /\ header.t # "dict") => ret.value.none

-----------------------------------------------------------------------------
(* Tensors and tensor dicts.                                               *)

\* the tensor stored under `key` in the file at `path`
Tensor(path, key) == [origin |-> << path, key >>, val |-> 0, dtype |-> "stored"]

\* np.array(value, dtype=dtype); a value is held in units of 10^-5
Scalar(value, dtype) == [origin |-> <<>>, val |-> value, dtype |-> dtype]

\* a dict entry
Entry(k, v) == [k |-> k, v |-> v]

\* key in d
DictHas(d, k) == \E i \in 1..Len(d) : d[i].k = k

\* d[key], for a key of d
DictGet(d, k) == d[CHOOSE i \in 1..Len(d) : d[i].k = k].v

\* d[key] = v: the value of an existing key is replaced where it stands, a
\* new key is added at the end
DictSet(d, k, v) ==
    IF DictHas(d, k)
    THEN [i \in 1..Len(d) |-> IF d[i].k = k THEN Entry(k, v) ELSE d[i]]
    ELSE Append(d, Entry(k, v))

\* the keys of d, as a set
DictKeys(d) == { d[i].k : i \in 1..Len(d) }

-----------------------------------------------------------------------------
(* load_tensors.                                                           *)

\* lines 181-184: a prefix that is not empty ends with a dot
NormPrefix_Unchanged(prefix) == prefix

NormPrefix(prefix) ==
    IF prefix # <<>> /\ ~EndsWith(prefix, <<".">>)
    THEN prefix \o <<".">>
    ELSE prefix

\* f.keys() of safe_open: the tensor names of the header, the entry
\* "__metadata__" is no tensor
SafeOpenKeys(f) ==
    SelectSeq(f.value.keys, LAMBDA k : k # K_metadata)

\* whether safe_open(path) succeeds
SafeOpenOk(f) == f.exists /\ f.loadable /\ f.value.t = "dict"

\* lines 190-193, one iteration: `prefix` and `target_prefix` are normalised
LoadKey(tensors_, path, key, prefix, target_prefix) ==
    IF StartsWith(key, prefix)
    THEN DictSet(tensors_,
                 target_prefix \o SubSeq(key, Len(prefix) + 1, Len(key)),
                 Tensor(path, key))
    ELSE tensors_

\* lines 190-193, from the i-th key on
RECURSIVE LoadKeysFrom(_, _, _, _, _, _)
LoadKeysFrom(tensors_, path, keys, i, prefix, target_prefix) ==
    IF i > Len(keys) THEN tensors_
    ELSE LoadKeysFrom(LoadKey(tensors_, path, keys[i], prefix, target_prefix),
                      path, keys, i + 1, prefix, target_prefix)

\* load_tensors(path, prefix, target_prefix)
LoadTensors(path, prefix, target_prefix, fsys) ==
    IF ~SafeOpenOk(fsys[path]) THEN Raise("SafetensorError", <<>>)
    ELSE Return(LoadKeysFrom(<<>>, path, SafeOpenKeys(fsys[path]), 1,
                             NormPrefix(prefix), NormPrefix(target_prefix)))

-----------------------------------------------------------------------------
(* shift_layers.                                                           *)

\* the decimal digits
Digits == <<"0","1","2","3","4","5","6","7","8","9">>

\* s.isdecimal(), on ASCII text
IsDecimal(s) ==
    /\ s # <<>>
    /\ \A i \in 1..Len(s) : \E d \in 1..10 : Digits[d] = s[i]

\* int(s), for a decimal s
RECURSIVE ParseInt(_)
ParseInt(s) ==
    IF s = <<>> THEN 0
    ELSE 10 * ParseInt(SubSeq(s, 1, Len(s) - 1))
         + (CHOOSE d \in 0..9 : Digits[d + 1] = s[Len(s)])

\* str(n), for n >= 0
RECURSIVE NatToStr(_)
NatToStr(n) ==
    IF n < 10 THEN << Digits[n + 1] >>
    ELSE NatToStr(n \div 10) \o << Digits[(n % 10) + 1] >>

\* str(n) as the f-string of line 227 renders it
IntToStr(n) == IF n < 0 THEN <<"-">> \o NatToStr(-n) ELSE NatToStr(n)

\* s.split('.', 1)[0]
FirstPart(s) ==
    IF Find(s, ".") = 0 THEN s ELSE SubSeq(s, 1, Find(s, ".") - 1)

\* line 226: "." and s.split('.', 1)[1] when there is a second part
DotSuffix(s) ==
    IF Find(s, ".") = 0 THEN <<>> ELSE SubSeq(s, Find(s, "."), Len(s))

\* lines 216-227: the key an entry is stored under
FixedKey(key, layer_prefix, layer_offset) ==
    IF ~StartsWith(key, layer_prefix) THEN key
    ELSE LET rest == SubSeq(key, Len(layer_prefix) + 1, Len(key))
         IN  IF ~IsDecimal(FirstPart(rest)) THEN key
             ELSE layer_prefix
                  \o IntToStr(ParseInt(FirstPart(rest)) + layer_offset)
                  \o DotSuffix(rest)

\* lines 214-228, from the i-th entry on
RECURSIVE ShiftFrom(_, _, _, _, _)
ShiftFrom(fixed, sd, i, layer_prefix, layer_offset) ==
    IF i > Len(sd) THEN fixed
    ELSE ShiftFrom(DictSet(fixed, FixedKey(sd[i].k, layer_prefix, layer_offset),
                           sd[i].v),
                   sd, i + 1, layer_prefix, layer_offset)

\* shift_layers(state_dict, layer_prefix, layer_offset)
ShiftLayers(sd, layer_prefix, layer_offset) ==
    ShiftFrom(<<>>, sd, 1, layer_prefix, layer_offset)

-----------------------------------------------------------------------------
(* Inputs of load_tensors and shift_layers.                                *)

\* largest number of tensors in a file drawn for load_tensors
MaxLoadKeys == 3

\* largest number of entries in a dict drawn for shift_layers
MaxShiftKeys == 2

S_foo == <<"f","o","o">>
S_foo_dot == <<"f","o","o",".">>
S_bar == <<"b","a","r">>
K_foo_weight == <<"f","o","o",".","w","e","i","g","h","t">>
K_foobar_weight == <<"f","o","o","b","a","r",".","w","e","i","g","h","t">>
K_foo_0_bias == <<"f","o","o",".","0",".","b","i","a","s">>
K_bar_weight == <<"b","a","r",".","w","e","i","g","h","t">>
K_weight == <<"w","e","i","g","h","t">>
K_foo_only == <<"f","o","o">>
P_file == <<"f","i","l","e",".","s","a","f","e","t","e","n","s","o","r","s">>
S_dec_dot == <<"d","e","c",".">>
S_dec == <<"d","e","c">>
K_dec_0_weight == <<"d","e","c",".","0",".","w","e","i","g","h","t">>
K_dec_1_bias == <<"d","e","c",".","1",".","b","i","a","s">>
K_dec_norm_weight == <<"d","e","c",".","n","o","r","m",".","w","e","i","g","h","t">>
K_dec_01_weight == <<"d","e","c",".","0","1",".","w","e","i","g","h","t">>
K_dec_2_weight == <<"d","e","c",".","2",".","w","e","i","g","h","t">>
K_dec_00_weight == <<"d","e","c",".","0","0",".","w","e","i","g","h","t">>
K_dec_1_weight == <<"d","e","c",".","1",".","w","e","i","g","h","t">>
K_dec_2_bias == <<"d","e","c",".","2",".","b","i","a","s">>
K_dec_9_weight == <<"d","e","c",".","9",".","w","e","i","g","h","t">>
K_dec_3 == <<"d","e","c",".","3">>
K_dec_m1_weight == <<"d","e","c",".","-","1",".","w","e","i","g","h","t">>
K_enc_0_weight == <<"e","n","c",".","0",".","w","e","i","g","h","t">>

\* the tensor names of the file load_tensors reads
LoadKeyPool ==
    { K_foo_weight, K_foobar_weight, K_foo_0_bias, K_bar_weight, K_weight,
      K_foo_only }

\* the source and target prefixes load_tensors is called with
LoadPrefixes == { <<>>, S_foo, S_foo_dot, S_bar }

\* the keys of the dict shift_layers is called with
ShiftKeyPool ==
    { K_dec_0_weight, K_dec_1_bias, K_dec_norm_weight, K_dec_00_weight,
      K_dec_1_weight, K_dec_9_weight, K_dec_3, K_dec_m1_weight,
      K_enc_0_weight, K_dec_01_weight }

\* the layer prefixes and offsets shift_layers is called with
ShiftPrefixes == { S_dec_dot, S_dec, <<>> }
ShiftOffsets == { 1, -1 }

\* the dict of the tensors of a file, one entry per name
DictOf(path, keys) == [i \in 1..Len(keys) |-> Entry(keys[i], Tensor(path, keys[i]))]

-----------------------------------------------------------------------------
(* load_tensors, step by step.                                             *)

InitLoad ==
    /\ \E keys \in DistinctSeqs(LoadKeyPool, MaxLoadKeys),
          p \in LoadPrefixes, t \in LoadPrefixes :
          /\ args = [path |-> P_file, prefix |-> p, target_prefix |-> t]
          /\ fs = (P_file :> TensorFile(keys))
    /\ pc = "load_open"
    /\ idx = 1
    /\ tensors = <<>>
    /\ opened = <<>>
    /\ ret = NotCalled(<<>>)
    /\ header = Unused /\ taesd = Unused /\ matched = Unused
    /\ fixed_dict = Unused
    /\ encoder_tensors = Unused /\ decoder_tensors = Unused
    /\ transcoder_tensors = Unused
    /\ encoder_path_and_prefix = Unused /\ decoder_path_and_prefix = Unused
    /\ state_dict = Unused /\ saved = Unused /\ exit_code = -1

LoadFrame ==
    UNCHANGED << args, fs, header, taesd, matched, fixed_dict, encoder_tensors,
                 decoder_tensors, transcoder_tensors, encoder_path_and_prefix,
                 decoder_path_and_prefix, state_dict, saved, exit_code >>

\* lines 187-189: tensors = {} and safe_open(path)
LoadOpen ==
    /\ pc = "load_open"
    /\ SafeOpenOk(fs[args.path])
    /\ opened' = Append(opened, args.path)
    /\ tensors' = <<>>
    /\ idx' = 1
    /\ pc' = "load_keys"
    /\ UNCHANGED ret
    /\ LoadFrame

\* lines 190-193: one iteration of the loop over f.keys()
LoadNextKey ==
    /\ pc = "load_keys"
    /\ idx <= Len(SafeOpenKeys(fs[args.path]))
    /\ tensors' = LoadKey(tensors, args.path, SafeOpenKeys(fs[args.path])[idx],
                          NormPrefix(args.prefix), NormPrefix(args.target_prefix))
    /\ idx' = idx + 1
    /\ UNCHANGED << pc, opened, ret >>
    /\ LoadFrame

\* line 195: return tensors
LoadReturn ==
    /\ pc = "load_keys"
    /\ idx > Len(SafeOpenKeys(fs[args.path]))
    /\ ret' = Return(tensors)
    /\ pc' = "returned"
    /\ UNCHANGED << idx, tensors, opened >>
    /\ LoadFrame

NextLoad == LoadOpen \/ LoadNextKey \/ LoadReturn

SpecLoad == InitLoad /\ [][NextLoad]_vars

-----------------------------------------------------------------------------
(* shift_layers, step by step.                                             *)

InitShift ==
    /\ \E keys \in DistinctSeqs(ShiftKeyPool, MaxShiftKeys),
          p \in ShiftPrefixes, o \in ShiftOffsets :
          args = [state_dict |-> DictOf(P_file, keys), layer_prefix |-> p,
                  layer_offset |-> o]
    /\ pc = "shift_loop"
    /\ idx = 1
    /\ fixed_dict = <<>>
    /\ ret = NotCalled(<<>>)
    /\ fs = Unused /\ header = Unused /\ taesd = Unused /\ matched = Unused
    /\ tensors = Unused /\ opened = Unused
    /\ encoder_tensors = Unused /\ decoder_tensors = Unused
    /\ transcoder_tensors = Unused
    /\ encoder_path_and_prefix = Unused /\ decoder_path_and_prefix = Unused
    /\ state_dict = Unused /\ saved = Unused /\ exit_code = -1

ShiftFrame ==
    UNCHANGED << args, fs, header, taesd, matched, tensors, opened,
                 encoder_tensors, decoder_tensors, transcoder_tensors,
                 encoder_path_and_prefix, decoder_path_and_prefix, state_dict,
                 saved, exit_code >>

\* lines 214-228: one iteration of the loop over state_dict.items()
ShiftEntry ==
    /\ pc = "shift_loop"
    /\ idx <= Len(args.state_dict)
    /\ fixed_dict' = DictSet(fixed_dict,
                             FixedKey(args.state_dict[idx].k, args.layer_prefix,
                                      args.layer_offset),
                             args.state_dict[idx].v)
    /\ idx' = idx + 1
    /\ UNCHANGED << pc, ret >>
    /\ ShiftFrame

\* line 230: return fixed_dict
ShiftReturn ==
    /\ pc = "shift_loop"
    /\ idx > Len(args.state_dict)
    /\ ret' = Return(fixed_dict)
    /\ pc' = "returned"
    /\ UNCHANGED << idx, fixed_dict >>
    /\ ShiftFrame

NextShift == ShiftEntry \/ ShiftReturn

SpecShift == InitShift /\ [][NextShift]_vars

-----------------------------------------------------------------------------
(* Properties of load_tensors, checked under SpecLoad.                     *)

\* a prefix with the trailing dot the loader gives it
WithDot(p) == IF p = <<>> \/ p[Len(p)] = "." THEN p ELSE Append(p, ".")

\* the entry a tensor name of the file is loaded as
LoadedEntry(k, S, T) ==
    Entry(T \o SubSeq(k, Len(S) + 1, Len(k)), Tensor(args.path, k))

\* C4: load_tensors returns exactly the map that takes T + k[len(S):] to
\* the tensor of k, for the keys k of the file that start with S, where S
\* and T are the source and target prefix with their trailing dot; with
\* "foo" and "bar", "foo.weight" is loaded as "bar.weight" and
\* "foobar.weight" is not loaded.
C4_LoadedMap ==
    (pc = "returned" /\ ret.raised = "") =>
        LET S == WithDot(args.prefix)
            T == WithDot(args.target_prefix)
            K == Names(fs[args.path].value)
            d == ret.value
        IN  /\ \A i, j \in 1..Len(d) : d[i].k = d[j].k => i = j
            /\ \A i \in 1..Len(d) :
                  \E k \in K : StartsWith(k, S) /\ d[i] = LoadedEntry(k, S, T)
            /\ \A k \in K :
                  StartsWith(k, S) => \E i \in 1..Len(d) : d[i] = LoadedEntry(k, S, T)
            /\ (args.prefix = S_foo /\ args.target_prefix = S_bar) =>
                  /\ K_foo_weight \in K =>
                        /\ DictHas(d, K_bar_weight)
                        /\ DictGet(d, K_bar_weight) = Tensor(args.path, K_foo_weight)
                  /\ \A i \in 1..Len(d) :
                        /\ d[i].v # Tensor(args.path, K_foobar_weight)
                        /\ d[i].k # K_foobar_weight

\* C4 witness: a file with "foo.weight" and "foobar.weight" was loaded with
\* source prefix "foo" and target prefix "bar", and "bar.weight" came out.
C4_Witness ==
    /\ pc = "returned" /\ ret.raised = ""
    /\ args.prefix = S_foo /\ args.target_prefix = S_bar
    /\ {K_foo_weight, K_foobar_weight} \subseteq Names(fs[args.path].value)
    /\ DictHas(ret.value, K_bar_weight)
    /\ Len(ret.value) = 1

-----------------------------------------------------------------------------
(* Properties of shift_layers, checked under SpecShift.                    *)

\* the key starts with the prefix and its next segment is an integer
HasLayerNumber(k, P) ==
    /\ StartsWith(k, P)
    /\ IsDecimal(FirstPart(SubSeq(k, Len(P) + 1, Len(k))))

\* the key re-addressed by the offset
Readdressed(k, P, offset) ==
    LET rest == SubSeq(k, Len(P) + 1, Len(k))
        seg  == FirstPart(rest)
    IN  P \o IntToStr(ParseInt(seg) + offset) \o SubSeq(rest, Len(seg) + 1, Len(rest))

\* the key under which a shift by offset places an input key
Placed(k, P, offset) ==
    IF HasLayerNumber(k, P) THEN Readdressed(k, P, offset) ELSE k

\* C5: shift_layers re-addresses every key under the prefix whose next
\* segment is an integer n to prefix + (n + offset) + remainder, keeping its
\* tensor, and every other key appears in the result with the same key and
\* tensor; {"dec.0.weight", "dec.1.bias"} with "dec." and +1 gives
\* {"dec.1.weight", "dec.2.bias"}, and "dec.norm.weight" is left unchanged.
C5_ShiftReaddresses ==
    pc = "returned" =>
        LET sd == args.state_dict
            P  == args.layer_prefix
            d  == ret.value
        IN  /\ \A i \in 1..Len(sd) :
                  /\ DictHas(d, Placed(sd[i].k, P, args.layer_offset))
                  /\ DictGet(d, Placed(sd[i].k, P, args.layer_offset)) = sd[i].v
            /\ (/\ DictKeys(sd) = {K_dec_0_weight, K_dec_1_bias}
                /\ P = S_dec_dot /\ args.layer_offset = 1)
                  => DictKeys(d) = {K_dec_1_weight, K_dec_2_bias}
            /\ (DictHas(sd, K_dec_norm_weight) /\ P = S_dec_dot)
                  => DictHas(d, K_dec_norm_weight)

\* no two input keys are placed on the same output key
NoCollision ==
    \A i, j \in 1..Len(args.state_dict) :
        Placed(args.state_dict[i].k, args.layer_prefix, args.layer_offset)
          = Placed(args.state_dict[j].k, args.layer_prefix, args.layer_offset)
        => i = j

\* C5, on the inputs without a collision: there the statement of C5 holds.
C5_HoldsWithoutCollision == NoCollision => C5_ShiftReaddresses

\* C5, the example: the two keys were shifted by one.
C5_ExampleReached ==
    /\ pc = "returned"
    /\ DictKeys(args.state_dict) = {K_dec_0_weight, K_dec_1_bias}
    /\ args.layer_prefix = S_dec_dot /\ args.layer_offset = 1
    /\ DictKeys(ret.value) = {K_dec_1_weight, K_dec_2_bias}

-----------------------------------------------------------------------------
(* build_tiny_transcoder.                                                  *)

\* the keys of SCALE_AND_SHIFT_BY_LATENT_FORMAT
VALID_LATENT_FORMATS == {"sd", "sdxl", "sd3", "f1"}

\* the (scale_factor, shift_factor) of each latent format, in units of 10^-5
SCALE_AND_SHIFT_BY_LATENT_FORMAT ==
    [fmt \in VALID_LATENT_FORMATS |->
        CASE fmt = "sd"   -> << 18215, 0 >>
          [] fmt = "sdxl" -> << 13025, 0 >>
          [] fmt = "sd3"  -> << 153050, 6090 >>
          [] fmt = "f1"   -> << 36110, 11590 >>]

\* a float argument that may be None
Float(val) == [none |-> FALSE, val |-> val]
NoFloat == [none |-> TRUE, val |-> 0]

\* lines 396-397: the two assertions hold
FormatsValid_InputOnly(a) ==
    a.input_latent_format \in VALID_LATENT_FORMATS

FormatsValid(a) ==
    /\ a.input_latent_format \in VALID_LATENT_FORMATS
    /\ a.output_latent_format \in VALID_LATENT_FORMATS

\* line 408: {**encoder_tensors, **decoder_tensors}
RECURSIVE MergeFrom(_, _, _)
MergeFrom(d, more, i) ==
    IF i > Len(more) THEN d
    ELSE MergeFrom(DictSet(d, more[i].k, more[i].v), more, i + 1)

\* a merge into the dict that an earlier call left behind
Merge_OntoPrevious(enc, dec) ==
    MergeFrom(MergeFrom(transcoder_tensors, enc, 1), dec, 1)

Merge(enc, dec) == MergeFrom(enc, dec, 1)

\* lines 420-421: shift the decoder layers by 1 when "transd.0.weight" exists
Realign(t) ==
    IF DictHas(t, DECODER_PREFIX \o S_0_weight)
    THEN ShiftLayers(t, DECODER_PREFIX, 1)
    ELSE t

\* insert_xbridge_layer(state_dict, gaussian_blur_sigma, target_prefix)
InsertXBridgeLayer(sd, gaussian_blur_sigma, target_prefix) ==
    DictSet(sd, target_prefix \o S_gaussian_blur_sigma,
            Scalar(gaussian_blur_sigma, "float32"))

\* insert_emulation_layer(state_dict, scale_factor, shift_factor, target_prefix)
InsertEmulationLayer(sd, scale_factor, shift_factor, target_prefix) ==
    DictSet(DictSet(sd, target_prefix \o S_scale_factor,
                    Scalar(scale_factor, "float32")),
            target_prefix \o S_shift_factor, Scalar(shift_factor, "float32"))

\* lines 424-427: `if xbridge_gaussian_blur_sigma:` is false for None and 0
WithXBridge_UnlessNone(t, sigma) ==
    IF ~sigma.none
    THEN InsertXBridgeLayer(t, sigma.val, XBRIDGE_PREFIX)
    ELSE t

WithXBridge(t, sigma) ==
    IF ~sigma.none /\ sigma.val # 0
    THEN InsertXBridgeLayer(t, sigma.val, XBRIDGE_PREFIX)
    ELSE t

\* lines 430-440, for formats of the table
WithEmulation_BothFromInput(t, include, input_latent_format, output_latent_format) ==
    IF include
    THEN LET i == SCALE_AND_SHIFT_BY_LATENT_FORMAT[input_latent_format]
         IN  InsertEmulationLayer(
                 InsertEmulationLayer(t, i[1], i[2], INPUT_EMULATION_PREFIX),
                 i[1], i[2], OUTPUT_EMULATION_PREFIX)
    ELSE t

WithEmulation(t, include, input_latent_format, output_latent_format) ==
    IF include
    THEN LET i == SCALE_AND_SHIFT_BY_LATENT_FORMAT[input_latent_format]
             o == SCALE_AND_SHIFT_BY_LATENT_FORMAT[output_latent_format]
         IN  InsertEmulationLayer(
                 InsertEmulationLayer(t, i[1], i[2], INPUT_EMULATION_PREFIX),
                 o[1], o[2], OUTPUT_EMULATION_PREFIX)
    ELSE t

\* lines 431, 436: a format that is no key of the table raises KeyError
EmulationRaises(include, input_latent_format, output_latent_format) ==
    /\ include
    /\ \/ input_latent_format \notin DOMAIN SCALE_AND_SHIFT_BY_LATENT_FORMAT
       \/ output_latent_format \notin DOMAIN SCALE_AND_SHIFT_BY_LATENT_FORMAT

\* lines 443-447: every tensor is an ndarray and is cast to dtype
Convert(t, dtype) ==
    IF dtype # "None"
    THEN [i \in 1..Len(t) |-> Entry(t[i].k, [t[i].v EXCEPT !.dtype = dtype])]
    ELSE t

\* build_tiny_transcoder(...), `a` the record of its keyword arguments
BuildTinyTranscoder(a, fsys) ==
    IF ~FormatsValid(a) THEN Raise("AssertionError", <<>>)
    ELSE LET enc == LoadTensors(a.encoder_path_and_prefix.file,
                                a.encoder_path_and_prefix.prefix,
                                ENCODER_PREFIX, fsys)
         IN  IF enc.raised # "" THEN Raise(enc.raised, <<>>)
             ELSE LET dec == LoadTensors(a.decoder_path_and_prefix.file,
                                         a.decoder_path_and_prefix.prefix,
                                         DECODER_PREFIX, fsys)
                  IN  IF dec.raised # "" THEN Raise(dec.raised, <<>>)
                      ELSE IF EmulationRaises(a.include_decoderencoder_emulation,
                                              a.input_latent_format,
                                              a.output_latent_format)
                           THEN Raise("KeyError", <<>>)
                      ELSE Return(Convert(
                               WithEmulation(
                                   WithXBridge(Realign(Merge(enc.value, dec.value)),
                                               a.xbridge_gaussian_blur_sigma),
                                   a.include_decoderencoder_emulation,
                                   a.input_latent_format, a.output_latent_format),
                               a.dtype))

-----------------------------------------------------------------------------
(* Inputs of build_tiny_transcoder and main.                               *)

P_enc == <<"t","a","e","s","d","x","l","_","e","n","c","o","d","e","r",".","s","a","f","e","t","e","n","s","o","r","s">>
P_dec == <<"t","a","e","s","d","_","d","e","c","o","d","e","r",".","s","a","f","e","t","e","n","s","o","r","s">>
P_multi == <<"d","i","f","f","u","s","i","o","n","_","p","y","t","o","r","c","h","_","m","o","d","e","l",".","s","a","f","e","t","e","n","s","o","r","s">>
P_missing == <<"m","i","s","s","i","n","g",".","s","a","f","e","t","e","n","s","o","r","s">>
P_list == <<"l","i","s","t",".","s","a","f","e","t","e","n","s","o","r","s">>
P_other == <<"u","n","e","t",".","s","a","f","e","t","e","n","s","o","r","s">>
P_corrupt == <<"c","o","r","r","u","p","t","_","d","e","c","o","d","e","r",".","s","a","f","e","t","e","n","s","o","r","s">>
P_zeros == <<"z","e","r","o","s","_","d","e","c","o","d","e","r",".","s","a","f","e","t","e","n","s","o","r","s">>
K_0_weight == <<"0",".","w","e","i","g","h","t">>
K_00_weight == <<"0","0",".","w","e","i","g","h","t">>
K_transd_00_weight == <<"t","r","a","n","s","d",".","0","0",".","w","e","i","g","h","t">>
K_transd_2_weight == <<"t","r","a","n","s","d",".","2",".","w","e","i","g","h","t">>
K_transe_0_weight == <<"t","r","a","n","s","e",".","0",".","w","e","i","g","h","t">>
K_taesdxl_encoder_0_weight == <<"t","a","e","s","d","x","l","_","e","n","c","o","d","e","r",".","0",".","w","e","i","g","h","t">>
K_1_weight == <<"1",".","w","e","i","g","h","t">>
K_encoder_layers_0_weight == <<"e","n","c","o","d","e","r",".","l","a","y","e","r","s",".","0",".","w","e","i","g","h","t">>
K_encoder_layers_3_conv_4_bias == <<"e","n","c","o","d","e","r",".","l","a","y","e","r","s",".","3",".","c","o","n","v",".","4",".","b","i","a","s">>
K_decoder_layers_0_weight == <<"d","e","c","o","d","e","r",".","l","a","y","e","r","s",".","0",".","w","e","i","g","h","t">>
K_unet_weight == <<"u","n","e","t",".","w","e","i","g","h","t">>
S_taesdxl_encoder == <<"t","a","e","s","d","x","l","_","e","n","c","o","d","e","r">>
S_encoder_layers == <<"e","n","c","o","d","e","r",".","l","a","y","e","r","s">>
S_decoder_layers == <<"d","e","c","o","d","e","r",".","l","a","y","e","r","s">>
K_in_emu_scale_factor == <<"i","n","_","e","m","u",".","s","c","a","l","e","_","f","a","c","t","o","r">>
K_in_emu_shift_factor == <<"i","n","_","e","m","u",".","s","h","i","f","t","_","f","a","c","t","o","r">>
K_out_emu_scale_factor == <<"o","u","t","_","e","m","u",".","s","c","a","l","e","_","f","a","c","t","o","r">>
K_out_emu_shift_factor == <<"o","u","t","_","e","m","u",".","s","h","i","f","t","_","f","a","c","t","o","r">>
K_transx_gaussian_blur_sigma == <<"t","r","a","n","s","x",".","g","a","u","s","s","i","a","n","_","b","l","u","r","_","s","i","g","m","a">>
K_transd_0_weight == <<"t","r","a","n","s","d",".","0",".","w","e","i","g","h","t">>
P_out_dir == <<"o","u","t">>
P_no_dir == <<"n","o","w","h","e","r","e">>

\* the files of the runs of build_tiny_transcoder and main: an encoder with
\* a name stem, a compact decoder, a diffusers file with both roles, a file
\* that does not exist, a header that is a JSON list, a file of another
\* model, and a decoder that safe_open rejects
BuildFiles ==
    (P_enc :> TensorFile(<< K_taesdxl_encoder_0_weight, K_taesdxl_encoder_anchor >>))
    @@ (P_dec :> TensorFile(<< K_metadata, K_1_weight, K_3_conv_4_bias,
                               K_8_conv_0_weight >>))
    @@ (P_multi :> TensorFile(<< K_encoder_layers_0_weight,
                                 K_encoder_layers_3_conv_4_bias,
                                 K_encoder_layers_4_conv_4_bias,
                                 K_encoder_layers_8_conv_0_weight,
                                 K_decoder_layers_0_weight,
                                 K_decoder_layers_3_conv_4_bias,
                                 K_decoder_layers_8_conv_0_weight >>))
    @@ (P_missing :> File(FALSE, 0, 0, "ok", PyNone, FALSE))
    @@ (P_list :> File(TRUE, 1024, 512, "ok",
                       PyList(<< K_3_conv_4_bias, K_8_conv_0_weight >>), FALSE))
    @@ (P_other :> TensorFile(<< K_unet_weight >>))
    @@ (P_corrupt :> File(TRUE, 1024, 512, "ok",
                          PyDict(<< K_1_weight, K_3_conv_4_bias, K_8_conv_0_weight >>),
                          FALSE))
    @@ (P_zeros :> TensorFile(<< K_0_weight, K_00_weight, K_3_conv_4_bias,
                                 K_8_conv_0_weight >>))

\* the (path, prefix) pairs build_tiny_transcoder is called with
EncoderChoices ==
    { PathAndPrefix(P_enc, S_taesdxl_encoder),
      PathAndPrefix(P_multi, S_encoder_layers),
      PathAndPrefix(P_missing, <<>>) }
DecoderChoices ==
    { PathAndPrefix(P_dec, <<>>),
      PathAndPrefix(P_multi, S_decoder_layers),
      PathAndPrefix(P_zeros, <<>>) }

\* the latent formats build_tiny_transcoder is called with
LatentFormats == VALID_LATENT_FORMATS \cup {"SD", ""}

\* the blur sigmas, in units of 10^-5: None, 0, 0.5 and -1
Sigmas == { NoFloat, Float(0), Float(50000), Float(-100000) }

\* the dtypes: None and np.float16
Dtypes == { "None", "float16" }

-----------------------------------------------------------------------------
(* build_tiny_transcoder, step by step.                                    *)

InitBuild ==
    /\ \E e \in EncoderChoices, d \in DecoderChoices,
          i \in LatentFormats, o \in LatentFormats,
          s \in Sigmas, emu \in BOOLEAN, dt \in Dtypes :
          args = [encoder_path_and_prefix |-> e,
                  decoder_path_and_prefix |-> d,
                  input_latent_format |-> i,
                  output_latent_format |-> o,
                  xbridge_gaussian_blur_sigma |-> s,
                  include_decoderencoder_emulation |-> emu,
                  dtype |-> dt]
    /\ fs = BuildFiles
    /\ pc = "build_assert"
    /\ encoder_tensors = <<>>
    /\ decoder_tensors = <<>>
    /\ transcoder_tensors = <<>>
    /\ opened = <<>>
    /\ ret = NotCalled(<<>>)
    /\ idx = 1
    /\ header = Unused /\ taesd = Unused /\ matched = Unused
    /\ tensors = Unused /\ fixed_dict = Unused
    /\ encoder_path_and_prefix = Unused /\ decoder_path_and_prefix = Unused
    /\ state_dict = Unused /\ saved = Unused /\ exit_code = -1

BuildFrame ==
    UNCHANGED << args, fs, idx, header, taesd, matched, tensors, fixed_dict,
                 encoder_path_and_prefix, decoder_path_and_prefix, state_dict,
                 saved, exit_code >>

\* lines 396-397: the assertions on the two latent formats
BuildAssert ==
    /\ pc = "build_assert"
    /\ IF FormatsValid(args)
       THEN pc' = "build_load_encoder" /\ UNCHANGED ret
       ELSE pc' = "raised" /\ ret' = Raise("AssertionError", <<>>)
    /\ UNCHANGED << encoder_tensors, decoder_tensors, transcoder_tensors, opened >>
    /\ BuildFrame

\* lines 399-401: encoder_tensors = load_tensors(...)
BuildLoadEncoder ==
    /\ pc = "build_load_encoder"
    /\ LET r == LoadTensors(args.encoder_path_and_prefix.file,
                            args.encoder_path_and_prefix.prefix,
                            ENCODER_PREFIX, fs)
       IN  /\ opened' = Append(opened, args.encoder_path_and_prefix.file)
           /\ IF r.raised # ""
              THEN /\ pc' = "raised" /\ ret' = Raise(r.raised, <<>>)
                   /\ UNCHANGED encoder_tensors
              ELSE /\ pc' = "build_load_decoder" /\ encoder_tensors' = r.value
                   /\ UNCHANGED ret
    /\ UNCHANGED << decoder_tensors, transcoder_tensors >>
    /\ BuildFrame

\* lines 403-405: decoder_tensors = load_tensors(...)
BuildLoadDecoder ==
    /\ pc = "build_load_decoder"
    /\ LET r == LoadTensors(args.decoder_path_and_prefix.file,
                            args.decoder_path_and_prefix.prefix,
                            DECODER_PREFIX, fs)
       IN  /\ opened' = Append(opened, args.decoder_path_and_prefix.file)
           /\ IF r.raised # ""
              THEN /\ pc' = "raised" /\ ret' = Raise(r.raised, <<>>)
                   /\ UNCHANGED decoder_tensors
              ELSE /\ pc' = "build_merge" /\ decoder_tensors' = r.value
                   /\ UNCHANGED ret
    /\ UNCHANGED << encoder_tensors, transcoder_tensors >>
    /\ BuildFrame

\* line 408: the merge of the two dicts
BuildMerge ==
    /\ pc = "build_merge"
    /\ transcoder_tensors' = Merge(encoder_tensors, decoder_tensors)
    /\ pc' = "build_realign"
    /\ UNCHANGED << encoder_tensors, decoder_tensors, opened, ret >>
    /\ BuildFrame

\* lines 420-421: the realignment of the decoder layers
BuildRealign ==
    /\ pc = "build_realign"
    /\ transcoder_tensors' = Realign(transcoder_tensors)
    /\ pc' = "build_xbridge"
    /\ UNCHANGED << encoder_tensors, decoder_tensors, opened, ret >>
    /\ BuildFrame

\* lines 424-427: the xbridge layer
BuildXBridge ==
    /\ pc = "build_xbridge"
    /\ transcoder_tensors' = WithXBridge(transcoder_tensors,
                                         args.xbridge_gaussian_blur_sigma)
    /\ pc' = "build_emulation"
    /\ UNCHANGED << encoder_tensors, decoder_tensors, opened, ret >>
    /\ BuildFrame

\* lines 430-440: the emulation layers
BuildEmulation ==
    /\ pc = "build_emulation"
    /\ IF EmulationRaises(args.include_decoderencoder_emulation,
                          args.input_latent_format, args.output_latent_format)
       THEN /\ pc' = "raised" /\ ret' = Raise("KeyError", <<>>)
            /\ UNCHANGED transcoder_tensors
       ELSE /\ transcoder_tensors' =
                   WithEmulation(transcoder_tensors,
                                 args.include_decoderencoder_emulation,
                                 args.input_latent_format,
                                 args.output_latent_format)
            /\ pc' = "build_convert"
            /\ UNCHANGED ret
    /\ UNCHANGED << encoder_tensors, decoder_tensors, opened >>
    /\ BuildFrame

\* lines 443-449: the conversion of the data type, and the return
BuildConvert ==
    /\ pc = "build_convert"
    /\ transcoder_tensors' = Convert(transcoder_tensors, args.dtype)
    /\ ret' = Return(transcoder_tensors')
    /\ pc' = "returned"
    /\ UNCHANGED << encoder_tensors, decoder_tensors, opened >>
    /\ BuildFrame

NextBuild ==
    \/ BuildAssert \/ BuildLoadEncoder \/ BuildLoadDecoder \/ BuildMerge
    \/ BuildRealign \/ BuildXBridge \/ BuildEmulation \/ BuildConvert

SpecBuild == InitBuild /\ [][NextBuild]_vars

\* the steps of build_tiny_transcoder compute what the function computes
BuildStepsAgree ==
    pc \in {"returned", "raised"} => ret = BuildTinyTranscoder(args, fs)

-----------------------------------------------------------------------------
(* Properties of build_tiny_transcoder, checked under SpecBuild.           *)

\* the keys of a dict that start with a prefix
KeysUnder(d, prefix) == { k \in DictKeys(d) : StartsWith(k, prefix) }

\* the table of the latent formats as the specification gives it, in units
\* of 10^-5: (scale, shift)
TableEntry(fmt) ==
    CASE fmt = "sd"   -> << 18215, 0 >>
      [] fmt = "sdxl" -> << 13025, 0 >>
      [] fmt = "sd3"  -> << 153050, 6090 >>
      [] fmt = "f1"   -> << 36110, 11590 >>

\* the dict holds the scalar `value` under `key`
HoldsScalar(d, key, value) == DictHas(d, key) /\ DictGet(d, key).val = value

\* C7: with emulation requested the result holds the (scale, shift) of the
\* input format under "in_emu." and those of the output format under
\* "out_emu."; without, it has no key under "in_emu." or "out_emu.".
C7_EmulationByFormat ==
    (pc = "returned" /\ ret.raised = "") =>
        LET d == ret.value
        IN  IF args.include_decoderencoder_emulation
            THEN /\ HoldsScalar(d, K_in_emu_scale_factor,
                                TableEntry(args.input_latent_format)[1])
                 /\ HoldsScalar(d, K_in_emu_shift_factor,
                                TableEntry(args.input_latent_format)[2])
                 /\ HoldsScalar(d, K_out_emu_scale_factor,
                                TableEntry(args.output_latent_format)[1])
                 /\ HoldsScalar(d, K_out_emu_shift_factor,
                                TableEntry(args.output_latent_format)[2])
            ELSE /\ KeysUnder(d, INPUT_EMULATION_PREFIX) = {}
                 /\ KeysUnder(d, OUTPUT_EMULATION_PREFIX) = {}

\* C7 witness: a transcoder from sd3 to f1 was built with emulation, and
\* holds the scale of sd3 on the input side and of f1 on the output side.
C7_Witness ==
    /\ pc = "returned" /\ ret.raised = ""
    /\ args.include_decoderencoder_emulation
    /\ args.input_latent_format = "sd3" /\ args.output_latent_format = "f1"
    /\ HoldsScalar(ret.value, K_in_emu_scale_factor, 153050)
    /\ HoldsScalar(ret.value, K_out_emu_shift_factor, 11590)

\* C8: with a blur sigma of None or zero the result has no key under
\* "transx."; with another sigma it has exactly one, namely
\* "transx.gaussian_blur_sigma", holding the sigma.
C8_BridgeOnlyWithSigma ==
    (pc = "returned" /\ ret.raised = "") =>
        LET d     == ret.value
            sigma == args.xbridge_gaussian_blur_sigma
        IN  IF sigma.none \/ sigma.val = 0
            THEN KeysUnder(d, XBRIDGE_PREFIX) = {}
            ELSE /\ KeysUnder(d, XBRIDGE_PREFIX) = {K_transx_gaussian_blur_sigma}
                 /\ HoldsScalar(d, K_transx_gaussian_blur_sigma, sigma.val)

\* C8 witness: a transcoder was built with sigma 0.5 and holds it.
C8_Witness ==
    /\ pc = "returned" /\ ret.raised = ""
    /\ args.xbridge_gaussian_blur_sigma = Float(50000)
    /\ HoldsScalar(ret.value, K_transx_gaussian_blur_sigma, 50000)

\* C8 witness of the other case: a transcoder was built with sigma 0 and
\* has no bridge key.
C8_ZeroSigmaReached ==
    /\ pc = "returned" /\ ret.raised = ""
    /\ args.xbridge_gaussian_blur_sigma = Float(0)
    /\ KeysUnder(ret.value, XBRIDGE_PREFIX) = {}

\* C9: when a latent format is outside {"sd", "sdxl", "sd3", "f1"},
\* build_tiny_transcoder raises, returns no tensor set and opens no file,
\* whatever the other arguments.
C9_InvalidFormatFails ==
    (/\ pc # "build_assert"
     /\ \/ args.input_latent_format \notin {"sd", "sdxl", "sd3", "f1"}
        \/ args.output_latent_format \notin {"sd", "sdxl", "sd3", "f1"}) =>
        /\ pc = "raised"
        /\ ret = Raise("AssertionError", <<>>)
        /\ opened = <<>>
        /\ transcoder_tensors = <<>>

\* C9 witness: the output format "SD" was refused without emulation
\* requested, the input format being valid, and no file was opened.
C9_Witness ==
    /\ pc = "raised"
    /\ args.input_latent_format = "sd" /\ args.output_latent_format = "SD"
    /\ ~args.include_decoderencoder_emulation
    /\ ret.raised = "AssertionError"
    /\ opened = <<>>

-----------------------------------------------------------------------------
(* main.                                                                   *)

\* an optional string argument
Str(s) == [none |-> FALSE, path |-> s]
NoStr == [none |-> TRUE, path |-> <<>>]

\* lines 494-507: the latent format of the --from-* option given; an empty
\* path counts as no option
FromLatentFormat(a) ==
    IF a.from_path = <<>> THEN ""
    ELSE CASE a.from_flag = "sd"   -> "sd"
           [] a.from_flag = "sdxl" -> "sdxl"
           [] a.from_flag = "sd3"  -> "sd3"
           [] a.from_flag = "flux" -> "f1"

\* lines 511-524: the latent format of the --to-* option given
ToLatentFormat(a) ==
    IF a.to_path = <<>> THEN ""
    ELSE CASE a.to_flag = "sd"   -> "sd"
           [] a.to_flag = "sdxl" -> "sdxl"
           [] a.to_flag = "sd3"  -> "sd3"
           [] a.to_flag = "flux" -> "f1"

\* lines 560-561: an output directory is given and does not exist
OutputDirMissing_Never(a, fsys) == FALSE

OutputDirMissing(a, fsys) ==
    /\ ~a.output_dir.none
    /\ a.output_dir.path # <<>>
    /\ ~(a.output_dir.path \in DOMAIN fsys /\ fsys[a.output_dir.path].exists)

\* lines 544-551: the arguments main gives build_tiny_transcoder
MainBuildArgs(a, enc, dec) ==
    [encoder_path_and_prefix |-> enc,
     decoder_path_and_prefix |-> dec,
     input_latent_format |-> FromLatentFormat(a),
     output_latent_format |-> ToLatentFormat(a),
     xbridge_gaussian_blur_sigma |-> a.blur,
     include_decoderencoder_emulation |-> TRUE,
     dtype |-> a.dtype]

\* the files and directories of a run of main
MainFiles ==
    BuildFiles
    @@ (P_out_dir :> File(TRUE, 4096, 0, "ok", PyNone, FALSE))
    @@ (P_no_dir :> File(FALSE, 0, 0, "ok", PyNone, FALSE))

\* the paths given with --from-* and --to-*
MainPaths ==
    { P_enc, P_dec, P_multi, P_missing, P_list, P_other, P_corrupt, <<>> }

InitMain ==
    /\ \E ff \in {"sd", "sdxl", "sd3", "flux"}, fp \in MainPaths,
          tf \in {"sd", "sdxl", "sd3", "flux"}, tp \in MainPaths,
          od \in { NoStr, Str(<<>>), Str(P_out_dir), Str(P_no_dir) },
          b \in { NoFloat, Float(50000) } :
          args = [from_flag |-> ff, from_path |-> fp,
                  to_flag |-> tf, to_path |-> tp,
                  output_dir |-> od, blur |-> b, dtype |-> "None"]
    /\ fs = MainFiles
    /\ pc = "main_select"
    /\ encoder_path_and_prefix = None
    /\ decoder_path_and_prefix = None
    /\ state_dict = <<>>
    /\ saved = <<>>
    /\ exit_code = -1
    /\ ret = NotCalled(<<>>)
    /\ idx = 1
    /\ header = Unused /\ taesd = Unused /\ matched = Unused
    /\ tensors = Unused /\ fixed_dict = Unused
    /\ encoder_tensors = Unused /\ decoder_tensors = Unused
    /\ transcoder_tensors = Unused /\ opened = Unused

MainFrame ==
    UNCHANGED << args, fs, idx, header, taesd, matched, tensors, fixed_dict,
                 encoder_tensors, decoder_tensors, transcoder_tensors, opened >>

\* fatal_error(...): exit(FATAL_ERROR_CODE)
FatalError ==
    /\ exit_code' = FATAL_ERROR_CODE
    /\ pc' = "exited"

\* an exception nobody catches: the interpreter prints the traceback and
\* exits with status 1
Uncaught(e) ==
    /\ ret' = Raise(e, <<>>)
    /\ exit_code' = 1
    /\ pc' = "exited"

\* lines 494-530: the source and the destination must be given
MainSelect ==
    /\ pc = "main_select"
    /\ IF FromLatentFormat(args) = "" \/ ToLatentFormat(args) = ""
       THEN FatalError
       ELSE pc' = "main_find" /\ UNCHANGED exit_code
    /\ UNCHANGED << encoder_path_and_prefix, decoder_path_and_prefix,
                    state_dict, saved, ret >>
    /\ MainFrame

\* lines 533-534: the two calls of find_taesd_with_role
MainFind ==
    /\ pc = "main_find"
    /\ LET e == FindTaesdWithRole(<< args.to_path >>, S_encoder, fs)
           d == FindTaesdWithRole(<< args.from_path >>, S_decoder, fs)
       IN  IF e.raised # ""
           THEN /\ Uncaught(e.raised)
                /\ UNCHANGED << encoder_path_and_prefix, decoder_path_and_prefix >>
           ELSE IF d.raised # ""
           THEN /\ Uncaught(d.raised)
                /\ encoder_path_and_prefix' = e.value
                /\ UNCHANGED decoder_path_and_prefix
           ELSE /\ encoder_path_and_prefix' = e.value
                /\ decoder_path_and_prefix' = d.value
                /\ pc' = "main_check_encoder"
                /\ UNCHANGED << exit_code, ret >>
    /\ UNCHANGED << state_dict, saved >>
    /\ MainFrame

\* lines 536-537: no encoder is fatal
MainCheckEncoder ==
    /\ pc = "main_check_encoder"
    /\ IF encoder_path_and_prefix.none
       THEN FatalError
       ELSE pc' = "main_check_decoder" /\ UNCHANGED exit_code
    /\ UNCHANGED << encoder_path_and_prefix, decoder_path_and_prefix,
                    state_dict, saved, ret >>
    /\ MainFrame

\* lines 538-539: no decoder is fatal
MainCheckDecoder ==
    /\ pc = "main_check_decoder"
    /\ IF decoder_path_and_prefix.none
       THEN FatalError
       ELSE pc' = "main_build" /\ UNCHANGED exit_code
    /\ UNCHANGED << encoder_path_and_prefix, decoder_path_and_prefix,
                    state_dict, saved, ret >>
    /\ MainFrame

\* lines 542-551: state_dict = build_tiny_transcoder(...)
MainBuild ==
    /\ pc = "main_build"
    /\ LET r == BuildTinyTranscoder(
                    MainBuildArgs(args, encoder_path_and_prefix,
                                  decoder_path_and_prefix), fs)
       IN  IF r.raised # ""
           THEN Uncaught(r.raised) /\ UNCHANGED state_dict
           ELSE /\ state_dict' = r.value
                /\ pc' = "main_output"
                /\ UNCHANGED << exit_code, ret >>
    /\ UNCHANGED << encoder_path_and_prefix, decoder_path_and_prefix, saved >>
    /\ MainFrame

\* lines 555-564: the output path; a directory that does not exist is fatal
MainOutput ==
    /\ pc = "main_output"
    /\ IF OutputDirMissing(args, fs)
       THEN FatalError
       ELSE pc' = "main_save" /\ UNCHANGED exit_code
    /\ UNCHANGED << encoder_path_and_prefix, decoder_path_and_prefix,
                    state_dict, saved, ret >>
    /\ MainFrame

\* lines 567-568: save_file(state_dict, output_file_path), and the end of
\* main; of the output path the directory is kept
MainSave ==
    /\ pc = "main_save"
    /\ saved' = Append(saved, [state_dict |-> state_dict,
                               dir |-> IF args.output_dir.none
                                       THEN <<>> ELSE args.output_dir.path])
    /\ exit_code' = 0
    /\ pc' = "exited"
    /\ UNCHANGED << encoder_path_and_prefix, decoder_path_and_prefix,
                    state_dict, ret >>
    /\ MainFrame

NextMain ==
    \/ MainSelect \/ MainFind \/ MainCheckEncoder \/ MainCheckDecoder
    \/ MainBuild \/ MainOutput \/ MainSave

SpecMain == InitMain /\ [][NextMain]_vars

-----------------------------------------------------------------------------
(* Properties of main, checked under SpecMain.                             *)

\* the files of MainFiles that classify as an encoder and as a decoder
EncoderFiles == { P_enc, P_multi }
DecoderFiles == { P_dec, P_multi, P_corrupt }

\* the fatal precondition failures of a run
NoEncoder == args.to_path \notin EncoderFiles
NoDecoder == args.from_path \notin DecoderFiles
NoOutputDir == args.output_dir = Str(P_no_dir)

\* C10: a run with no encoder, no decoder or an output directory that does
\* not exist ends with exit code 1 and never calls save_file; save_file is
\* called only when both roles were found and the output directory, if
\* given, exists.
C10_FatalExitsWithoutSaving ==
    /\ (NoEncoder \/ NoDecoder \/ NoOutputDir) =>
           /\ saved = <<>>
           /\ exit_code \in {-1, 1}
           /\ pc = "exited" => exit_code = 1
    /\ saved # <<>> =>
           /\ ~encoder_path_and_prefix.none /\ encoder_path_and_prefix.file \in EncoderFiles
           /\ ~decoder_path_and_prefix.none /\ decoder_path_and_prefix.file \in DecoderFiles
           /\ ~NoOutputDir

\* C10 witness: both roles were found and the transcoder was built, the
\* output directory does not exist, and the run ended with exit code 1
\* without a call of save_file.
C10_Witness ==
    /\ pc = "exited" /\ exit_code = 1 /\ saved = <<>>
    /\ ~NoEncoder /\ ~NoDecoder /\ NoOutputDir
    /\ state_dict # <<>>

\* C10, the other runs: a transcoder was saved.
C10_SaveReached ==
    /\ pc = "exited" /\ exit_code = 0 /\ Len(saved) = 1

K_transd_1_weight == <<"t","r","a","n","s","d",".","1",".","w","e","i","g","h","t">>

-----------------------------------------------------------------------------
(* Two calls of build_tiny_transcoder, one after the other, with the same  *)
(* arguments. Between the calls a source file may be replaced.             *)

\* the formats, sigmas and files of the two calls
TwiceFormats == { "sd", "f1", "SD" }
TwiceSigmas == { NoFloat, Float(50000) }
TwiceReplacements == { P_other, P_multi, P_missing }

InitTwice ==
    /\ \E e \in EncoderChoices, d \in DecoderChoices,
          i \in TwiceFormats, o \in TwiceFormats,
          s \in TwiceSigmas, emu \in BOOLEAN, dt \in Dtypes :
          args = [encoder_path_and_prefix |-> e,
                  decoder_path_and_prefix |-> d,
                  input_latent_format |-> i,
                  output_latent_format |-> o,
                  xbridge_gaussian_blur_sigma |-> s,
                  include_decoderencoder_emulation |-> emu,
                  dtype |-> dt]
    /\ fs = BuildFiles
    /\ pc = "build_assert"
    /\ encoder_tensors = <<>>
    /\ decoder_tensors = <<>>
    /\ transcoder_tensors = <<>>
    /\ opened = <<>>
    /\ ret = NotCalled(<<>>)
    /\ idx = 1
    /\ saved = <<>>
    /\ header = Unused /\ taesd = Unused /\ matched = Unused
    /\ tensors = Unused /\ fixed_dict = Unused
    /\ encoder_path_and_prefix = Unused /\ decoder_path_and_prefix = Unused
    /\ state_dict = Unused /\ exit_code = -1

\* the first call is over: its outcome and the files it ran on are kept and
\* the second call starts. The dicts of the first call are still in memory;
\* the locals of the second call are assigned before they are read.
TwiceAgain ==
    /\ pc \in {"returned", "raised"}
    /\ idx = 1
    /\ saved' = << [ret |-> ret, fs |-> fs] >>
    /\ idx' = 2
    /\ pc' = "build_assert"
    /\ ret' = NotCalled(<<>>)
    /\ opened' = <<>>
    /\ UNCHANGED << args, fs, header, taesd, matched, tensors, fixed_dict,
                    encoder_tensors, decoder_tensors, transcoder_tensors,
                    encoder_path_and_prefix, decoder_path_and_prefix,
                    state_dict, exit_code >>

\* before the second call somebody replaces a source file by another file
TwiceReplace ==
    /\ pc = "build_assert"
    /\ idx = 2
    /\ fs = saved[1].fs
    /\ \E p \in { args.encoder_path_and_prefix.file,
                  args.decoder_path_and_prefix.file },
          q \in TwiceReplacements :
          /\ fs[q] # fs[p]
          /\ fs' = [fs EXCEPT ![p] = fs[q]]
    /\ UNCHANGED << pc, args, idx, header, taesd, matched, tensors, fixed_dict,
                    encoder_tensors, decoder_tensors, transcoder_tensors,
                    opened, encoder_path_and_prefix, decoder_path_and_prefix,
                    state_dict, saved, exit_code, ret >>

NextTwice ==
    \/ BuildAssert \/ BuildLoadEncoder \/ BuildLoadDecoder \/ BuildMerge
    \/ BuildRealign \/ BuildXBridge \/ BuildEmulation \/ BuildConvert
    \/ TwiceAgain \/ TwiceReplace

SpecTwice == InitTwice /\ [][NextTwice]_vars

-----------------------------------------------------------------------------
(* Properties of two calls, checked under SpecTwice.                       *)

\* two dicts have the same keys and the same tensor for every key
SameTensors(a, b) ==
    /\ DictKeys(a) = DictKeys(b)
    /\ \A k \in DictKeys(a) : DictGet(a, k) = DictGet(b, k)

\* the second call is over and ran on the files of the first one
SecondCallOver ==
    /\ idx = 2
    /\ pc \in {"returned", "raised"}
    /\ fs = saved[1].fs

C11_ReplacedFileDiffers ==
    /\ idx = 2 /\ pc = "returned" /\ saved[1].ret.raised = ""
    /\ fs # saved[1].fs
    /\ ~SameTensors(ret.value, saved[1].ret.value)

-----------------------------------------------------------------------------
(* Properties of the realignment, checked under SpecBuild.                 *)

\* the keys that the bridge and the emulation layers are stored under
InjectedKeys(a) ==
    (IF a.xbridge_gaussian_blur_sigma \in { NoFloat, Float(0) }
     THEN {} ELSE { K_transx_gaussian_blur_sigma })
    \cup
    (IF a.include_decoderencoder_emulation
     THEN { K_in_emu_scale_factor, K_in_emu_shift_factor,
            K_out_emu_scale_factor, K_out_emu_shift_factor }
     ELSE {})

\* the merged set m was realigned to t: every key under "transd." with an
\* integer next segment is found one layer up with its tensor, and every key
\* under "transe." is found under its key with its tensor
ShiftedByOne(m, t) ==
    \A i \in 1..Len(m) :
        /\ HasLayerNumber(m[i].k, DECODER_PREFIX) =>
              /\ DictHas(t, Readdressed(m[i].k, DECODER_PREFIX, 1))
              /\ DictGet(t, Readdressed(m[i].k, DECODER_PREFIX, 1)) = m[i].v
        /\ StartsWith(m[i].k, ENCODER_PREFIX) =>
              /\ DictHas(t, m[i].k)
              /\ DictGet(t, m[i].k) = m[i].v

\* C12: the realignment is applied if and only if the merged set has the
\* key "transd.0.weight": then every key under "transd." with an integer
\* next segment is shifted by +1 and every key under "transe." keeps its key
\* and tensor; otherwise the merged set goes on unchanged. The bridge and the
\* emulation keys are injected after it and are found under their own names.
C12_RealignIffLayerZero ==
    /\ pc = "build_xbridge" =>
          LET m == Merge(encoder_tensors, decoder_tensors)
          IN  IF K_transd_0_weight \in DictKeys(m)
              THEN ShiftedByOne(m, transcoder_tensors)
              ELSE transcoder_tensors = m
    /\ (pc = "returned" /\ ret.raised = "") =>
          /\ InjectedKeys(args) \subseteq DictKeys(ret.value)
          /\ \A k \in DictKeys(ret.value) \ InjectedKeys(args) :
                StartsWith(k, DECODER_PREFIX) \/ StartsWith(k, ENCODER_PREFIX)

\* no two keys of the merged set are realigned to the same key
RealignNoCollision ==
    LET m == Merge(encoder_tensors, decoder_tensors)
    IN  \A i, j \in 1..Len(m) :
            Placed(m[i].k, DECODER_PREFIX, 1) = Placed(m[j].k, DECODER_PREFIX, 1)
            => i = j

\* C12, on the merged sets without a collision: there the statement holds.
C12_HoldsWithoutCollision ==
    (pc = "build_xbridge" /\ ~RealignNoCollision) \/ C12_RealignIffLayerZero

\* C12, the realignment happened: "decoder.layers.0.weight" of the file with
\* both roles is found under "transd.1.weight".
C12_RealignReached ==
    /\ pc = "build_xbridge"
    /\ args.decoder_path_and_prefix.file = P_multi
    /\ DictHas(decoder_tensors, K_transd_0_weight)
    /\ DictHas(transcoder_tensors, K_transd_1_weight)
    /\ ~DictHas(transcoder_tensors, K_transd_0_weight)
    /\ DictGet(transcoder_tensors, K_transd_1_weight)
         = Tensor(P_multi, K_decoder_layers_0_weight)

\* C12, no realignment: a decoder without layer 0 goes on unchanged.
C12_UnchangedReached ==
    /\ pc = "build_xbridge"
    /\ args.decoder_path_and_prefix.file = P_dec
    /\ DictHas(transcoder_tensors, K_transd_1_weight)
    /\ transcoder_tensors = Merge(encoder_tensors, decoder_tensors)

-----------------------------------------------------------------------------
(* find_taesd_with_role on one file, then load_tensors on that file with   *)
(* the prefix found, as main and build_tiny_transcoder do.                 *)

MaxNarrowKeys == 3

\* the tensor names of the files
NarrowKeyPool ==
    { K_taesdxl_encoder_anchor, K_taesd_decoder_anchor,
      K_taesdxl_encoder_0_weight,
      K_encoder_layers_4_conv_4_bias, K_encoder_layers_8_conv_0_weight,
      K_decoder_layers_3_conv_4_bias, K_decoder_layers_8_conv_0_weight }

InitNarrow ==
    /\ \E keys \in DistinctSeqs(NarrowKeyPool, MaxNarrowKeys),
          role \in ROLES :
          /\ args = [path |-> P_model, role |-> role]
          /\ fs = (P_model :> TensorFile(keys))
    /\ pc = "narrow_find"
    /\ ret = NotCalled(None)
    /\ tensors = <<>>
    /\ idx = 1
    /\ header = Unused /\ taesd = Unused /\ matched = Unused
    /\ fixed_dict = Unused
    /\ encoder_tensors = Unused /\ decoder_tensors = Unused
    /\ transcoder_tensors = Unused /\ opened = Unused
    /\ encoder_path_and_prefix = Unused /\ decoder_path_and_prefix = Unused
    /\ state_dict = Unused /\ saved = Unused /\ exit_code = -1

NarrowFrame ==
    UNCHANGED << args, fs, idx, header, taesd, matched, fixed_dict,
                 encoder_tensors, decoder_tensors, transcoder_tensors, opened,
                 encoder_path_and_prefix, decoder_path_and_prefix, state_dict,
                 saved, exit_code >>

\* lines 533-534: find_taesd_with_role([path], role)
NarrowFind ==
    /\ pc = "narrow_find"
    /\ ret' = FindTaesdWithRole(<< args.path >>, args.role, fs)
    /\ pc' = IF ret'.raised # "" THEN "raised"
             ELSE IF ret'.value.none THEN "not_found"
             ELSE "narrow_load"
    /\ UNCHANGED tensors
    /\ NarrowFrame

\* lines 399-405: load_tensors(path, prefix, target_prefix) with the path
\* and the prefix found
NarrowLoad ==
    /\ pc = "narrow_load"
    /\ LET r == LoadTensors(ret.value.file, ret.value.prefix,
                            IF args.role = S_encoder
                            THEN ENCODER_PREFIX ELSE DECODER_PREFIX, fs)
       IN  IF r.raised # ""
           THEN pc' = "raised" /\ UNCHANGED tensors
           ELSE pc' = "loaded" /\ tensors' = r.value
    /\ UNCHANGED ret
    /\ NarrowFrame

NextNarrow == NarrowFind \/ NarrowLoad

SpecNarrow == InitNarrow /\ [][NextNarrow]_vars

-----------------------------------------------------------------------------
(* Properties of the narrowing, checked under SpecNarrow.                  *)

\* the tensor names of the file
FileKeys == { fs[args.path].value.keys[i] :
                i \in 1..Len(fs[args.path].value.keys) }

\* the file has names with the word encoder and names with the word decoder
MultiRole ==
    /\ \E k \in FileKeys : Contains(k, S_encoder)
    /\ \E k \in FileKeys : Contains(k, S_decoder)

\* the names of the file whose tensor was loaded
LoadedFrom ==
    { k \in FileKeys :
        \E i \in 1..Len(tensors) : tensors[i].v = Tensor(args.path, k) }

\* C13: a file with both encoder-named and decoder-named tensors that
\* find_taesd_with_role selects for a role, loaded with the prefix returned,
\* gives no tensor whose name in the file holds the word of the other role.
C13_MultiRoleNarrowed ==
    (pc = "loaded" /\ MultiRole) =>
        \A k \in LoadedFrom :
            ~Contains(k, IF args.role = S_encoder THEN S_decoder ELSE S_encoder)

\* C13, a file that is narrowed: of "taesdxl_encoder.3.conv.4.bias",
\* "taesdxl_encoder.0.weight" and "taesd_decoder.3.conv.4.bias" the two
\* encoder tensors are loaded for the encoder.
C13_NarrowReached ==
    /\ pc = "loaded" /\ MultiRole /\ args.role = S_encoder
    /\ FileKeys = { K_taesdxl_encoder_anchor, K_taesdxl_encoder_0_weight,
                    K_taesd_decoder_anchor }
    /\ LoadedFrom = { K_taesdxl_encoder_anchor, K_taesdxl_encoder_0_weight }

\* C13, a file that is not narrowed: no encoder name ends with the anchor,
\* the prefix is empty and the decoder tensor is loaded for the encoder.
C13_NotNarrowedReached ==
    /\ pc = "loaded" /\ args.role = S_encoder
    /\ FileKeys = { K_taesdxl_encoder_0_weight, K_taesd_decoder_anchor }
    /\ ret.value.prefix = <<>>
    /\ K_taesd_decoder_anchor \in LoadedFrom

-----------------------------------------------------------------------------
(* More properties of shift_layers, checked under SpecShift.               *)

\* the entries of the dict d that hold the tensor v
EntriesHolding(d, v) == { j \in 1..Len(d) : d[j].v = v }

\* C14: shift_layers loses no tensor: whatever the keys, the prefix and the
\* offset, the result has as many entries as the input and every tensor of
\* the input is found under exactly one key of the result, also when a
\* shifted key is the name of another key and when layer numbers are
\* written with leading zeros.
C14_NoTensorLost ==
    pc = "returned" =>
        /\ Len(ret.value) = Len(args.state_dict)
        /\ \A i \in 1..Len(args.state_dict) :
              Cardinality(EntriesHolding(ret.value, args.state_dict[i].v)) = 1

\* C14, a shifted key that is the name of another key: "dec.0.weight" goes
\* to "dec.1.weight" and "dec.1.weight" to "dec.2.weight", both tensors kept.
C14_LandsOnOtherKeyReached ==
    /\ pc = "returned"
    /\ DictKeys(args.state_dict) = { K_dec_0_weight, K_dec_1_weight }
    /\ args.layer_prefix = S_dec_dot /\ args.layer_offset = 1
    /\ DictGet(ret.value, K_dec_1_weight) = Tensor(P_file, K_dec_0_weight)
    /\ DictGet(ret.value, K_dec_2_weight) = Tensor(P_file, K_dec_1_weight)
    /\ Len(ret.value) = 2

\* C14, leading zeros: "dec.1.weight" and "dec.01.weight" both go to
\* "dec.2.weight" and one entry is left.
C14_LeadingZerosReached ==
    /\ pc = "returned"
    /\ DictKeys(args.state_dict) = { K_dec_1_weight, K_dec_01_weight }
    /\ args.layer_prefix = S_dec_dot /\ args.layer_offset = 1
    /\ DictKeys(ret.value) = { K_dec_2_weight }
    /\ Len(ret.value) = 1

=============================================================================
